---- MODULE Spec2Model ----
(***************************************************************************)
(* Household optimisation of the S-period overlapping-generations model:   *)
(* src/Day8_UnbalGovt/households.py.                                       *)
(*                                                                         *)
(* Numbers.  The program computes in floating point; the model computes    *)
(* the same expressions exactly.  A number is a decimal rational           *)
(*     [n |-> n, d |-> d, e |-> e]   standing for   (n / d) * 10^e         *)
(* kept in lowest terms (d > 0, gcd(n, d) = 1, neither n nor d divisible   *)
(* by 10), so that equal numbers are equal records and the program's small *)
(* constants (1e-4, 1e-6) and their negative powers stay within range.     *)
(* The one irrational factor of the program, the power (1-upsilon)/upsilon  *)
(* in the elliptical marginal disutility of labor, is carried exactly as   *)
(* a surd: a value [r, s, base] stands for r + s * base^((1-ups)/ups).     *)
(***************************************************************************)
EXTENDS Integers, Sequences, FiniteSets, TLC

VARIABLES fn, args, ret, pc, per, cvec, nvec, bvec, res_n

vars == <<fn, args, ret, pc, per, cvec, nvec, bvec, res_n>>

(***************************************************************************)
(* Exact decimal-rational arithmetic: the program's arithmetic operators.   *)
(***************************************************************************)
Abs(i) == IF i < 0 THEN -i ELSE i

Min(i, j) == IF i <= j THEN i ELSE j

RECURSIVE Gcd(_, _)
Gcd(a, b) == IF b = 0 THEN Abs(a) ELSE Gcd(b, a % Abs(b))

RECURSIVE IPow(_, _)
IPow(b, k) == IF k = 0 THEN 1 ELSE b * IPow(b, k - 1)

RECURSIVE Val(_, _)
\* The number of factors p of n (n # 0).
Val(n, p) == IF n % p = 0 THEN 1 + Val(n \div p, p) ELSE 0

\* n without its factors p.
Unit(n, p) == n \div IPow(p, Val(n, p))

Pos(i) == IF i > 0 THEN i ELSE 0

\* The exponent of ten of a number with v2 factors 2 and v5 factors 5: the
\* powers of ten that the number has as a whole.
TenExp(v2, v5) ==
    IF v2 > 0 /\ v5 > 0 THEN Min(v2, v5)
    ELSE IF v2 < 0 /\ v5 < 0 THEN -Min(-v2, -v5)
    ELSE 0

\* (un / ud) * 2^v2 * 5^v5 with the exponent m of ten taken out.
NormExp(un, ud, v2, v5, m) ==
    [n |-> un * IPow(2, Pos(v2 - m)) * IPow(5, Pos(v5 - m)),
     d |-> ud * IPow(2, Pos(m - v2)) * IPow(5, Pos(m - v5)),
     e |-> m]

\* (un / ud) * 2^v2 * 5^v5 for un, ud without factors 2 and 5.
NormVal(un, ud, v2, v5) == NormExp(un, ud, v2, v5, TenExp(v2, v5))

\* (sn / sd) * 10^e for sn / sd in lowest terms, sd > 0.
NormLow(sn, sd, e) ==
    NormVal(Unit(Unit(sn, 2), 5), Unit(Unit(sd, 2), 5),
            Val(sn, 2) - Val(sd, 2) + e, Val(sn, 5) - Val(sd, 5) + e)

\* (n / d) * 10^e for g the greatest common divisor of n and d.
NormGcd(n, d, e, g) ==
    NormLow(IF d < 0 THEN -(n \div g) ELSE n \div g, Abs(d) \div g, e)

\* The one representation of the number (n / d) * 10^e, d # 0: n / d in
\* lowest terms and in the exponent the powers of ten that the number has as
\* a whole, so that equal numbers are equal records.
Norm(n, d, e) ==
    IF n = 0 THEN [n |-> 0, d |-> 1, e |-> 0] ELSE NormGcd(n, d, e, Gcd(n, d))

Q(n, d) == Norm(n, d, 0)

Dec(n, e) == Norm(n, 1, e)

Zero == [n |-> 0, d |-> 1, e |-> 0]

One == [n |-> 1, d |-> 1, e |-> 0]

Two == [n |-> 2, d |-> 1, e |-> 0]

Half == [n |-> 1, d |-> 2, e |-> 0]

RNeg(a) == [n |-> -a.n, d |-> a.d, e |-> a.e]

RMul(a, b) ==
    IF a.n = 0 \/ b.n = 0 THEN Zero
    ELSE LET g1 == Gcd(a.n, b.d)
             g2 == Gcd(b.n, a.d)
         IN  Norm((a.n \div g1) * (b.n \div g2),
                  (a.d \div g2) * (b.d \div g1), a.e + b.e)

RAdd(a, b) ==
    IF a.n = 0 THEN b
    ELSE IF b.n = 0 THEN a
    ELSE LET e  == Min(a.e, b.e)
             na == a.n * IPow(10, a.e - e)
             nb == b.n * IPow(10, b.e - e)
             g  == Gcd(a.d, b.d)
         IN  Norm(na * (b.d \div g) + nb * (a.d \div g),
                  (a.d \div g) * b.d, e)

RSub(a, b) == RAdd(a, RNeg(b))

\* 1 / a; a # 0.
RInv(a) == Norm(a.d, a.n, -a.e)

RDiv(a, b) == RMul(a, RInv(b))

RSign(a) == IF a.n > 0 THEN 1 ELSE IF a.n < 0 THEN -1 ELSE 0

RLt(a, b) == RSign(RSub(a, b)) < 0

RLe(a, b) == RSign(RSub(a, b)) <= 0

\* a ** k for an integer k (a # 0 when k < 0).
RPowI(a, k) ==
    IF k >= 0 THEN [n |-> IPow(a.n, k), d |-> IPow(a.d, k), e |-> a.e * k]
    ELSE RInv([n |-> IPow(a.n, -k), d |-> IPow(a.d, -k), e |-> a.e * (-k)])

RECURSIVE IRootFrom(_, _, _)
\* The least y >= y0 with y^k >= n.
IRootFrom(n, k, y0) == IF IPow(y0, k) >= n THEN y0 ELSE IRootFrom(n, k, y0 + 1)

IsPerfPow(n, k) == IPow(IRootFrom(n, k, 0), k) = n

\* a = (nn / dd) * 10^(k * ee) with nn / dd in lowest terms (a >= 0, k >= 1).
RootParts(a, k) ==
    LET m  == a.e % k
        n1 == a.n * IPow(10, m)
        g  == Gcd(n1, a.d)
    IN  [nn |-> n1 \div g, dd |-> a.d \div g, ee |-> (a.e - m) \div k]

\* Whether a ** (1/k) is a rational number.
HasRoot(a, k) ==
    /\ a.n >= 0
    /\ LET p == RootParts(a, k) IN IsPerfPow(p.nn, k) /\ IsPerfPow(p.dd, k)

\* a ** (1/k) where HasRoot(a, k).
RRoot(a, k) ==
    LET p == RootParts(a, k)
    IN  Norm(IRootFrom(p.nn, k, 0), IRootFrom(p.dd, k, 0), p.ee)

(***************************************************************************)
(* get_cons                                                                *)
(***************************************************************************)
\* tax_params is the triple <<tau_l, tau_k, tau_c>>.
tau_l_of(tax_params) == tax_params[1]

tau_k_of(tax_params) == tax_params[2]

tau_c_of(tax_params) == tax_params[3]

(***************************************************************************)
(* Arrays.  np.ndim is kept with every argument: an array is               *)
(* [nd |-> 0, v |-> number] (a scalar) or [nd |-> 1, v |-> sequence].      *)
(***************************************************************************)
Sc(x) == [nd |-> 0, v |-> x]

Vec(s) == [nd |-> 1, v |-> s]

\* Element i of an operand of an elementwise operation of length m: numpy
\* stretches scalars and arrays of length 1.
Elem(a, i) == IF a.nd = 0 THEN a.v ELSE IF Len(a.v) = 1 THEN a.v[1] ELSE a.v[i]

Shape(a) == IF a.nd = 0 THEN 1 ELSE Len(a.v)

\* numpy broadcasting of shapes (a,) and (b,): equal, or one of them 1.
CanBroadcast(a, b) == a = b \/ a = 1 \/ b = 1

BroadcastLen(a, b) == IF a = 1 THEN b ELSE a

\* The expression of get_cons with the two tax rates exchanged (tau_l on
\* capital income, tau_k on labor income): not what the code computes.
cons_elem_taxes_exchanged(r, w, b, b_sp1, n, x, tax_params) ==
    LET tau_l == tau_l_of(tax_params)
        tau_k == tau_k_of(tax_params)
    IN  RSub(RSub(RAdd(RSub(RAdd(RMul(RAdd(One, r), b), RMul(w, n)), b_sp1), x),
                  RMul(RMul(r, b), tau_l)),
             RMul(RMul(w, n), tau_k))

\* The expression of get_cons with the outlay taxed at tau_c (divided by
\* 1 + tau_c): not what the code computes.
cons_elem_taxed_at_tau_c(r, w, b, b_sp1, n, x, tax_params) ==
    LET tau_l == tau_l_of(tax_params)
        tau_k == tau_k_of(tax_params)
    IN  RDiv(RSub(RSub(RAdd(RSub(RAdd(RMul(RAdd(One, r), b), RMul(w, n)),
                                 b_sp1), x),
                       RMul(RMul(r, b), tau_k)),
                  RMul(RMul(w, n), tau_l)),
             RAdd(One, tau_c_of(tax_params)))

\* One element of cons = ((1 + r) * b) + (w * n) - b_sp1 + x - r*b*tau_k - w*n*tau_l
cons_elem(r, w, b, b_sp1, n, x, tax_params) ==
    LET tau_l == tau_l_of(tax_params)
        tau_k == tau_k_of(tax_params)
    IN  RSub(RSub(RAdd(RSub(RAdd(RMul(RAdd(One, r), b), RMul(w, n)), b_sp1), x),
                  RMul(RMul(r, b), tau_k)),
             RMul(RMul(w, n), tau_l))

MaxOf(S) == CHOOSE m \in S : \A k \in S : k <= m

\* The result of an elementwise operation with the elements elems: a scalar
\* when every operand is one, a vector otherwise.
Pack(all_scalar, elems) == IF all_scalar THEN Sc(elems[1]) ELSE Vec(elems)

\* The arithmetic of get_cons is numpy's: elementwise over its operands.
get_cons(r, w, b, b_sp1, n, x, tax_params) ==
    Pack(\A a \in {r, w, b, b_sp1, n, x} : a.nd = 0,
         [i \in 1..MaxOf({Shape(a) : a \in {r, w, b, b_sp1, n, x}}) |->
             cons_elem(Elem(r, i), Elem(w, i), Elem(b, i), Elem(b_sp1, i),
                       Elem(n, i), Elem(x, i), tax_params)])

(***************************************************************************)
(* MU_c_stitch                                                             *)
(***************************************************************************)
\* epsilon = 0.0001
epsilon == Dec(1, -4)

\* b2 = (-sigma * (epsilon ** (-sigma - 1))) / 2
MU_c_b2(sigma) ==
    RDiv(RMul(RNeg(Q(sigma, 1)), RPowI(epsilon, (-sigma) - 1)), Two)

\* An intercept with the sign of its second term reversed: not what the code
\* computes; with it the line misses the power function at epsilon.
MU_c_b1_plus(sigma) ==
    RAdd(RPowI(epsilon, -sigma), RMul(RMul(Two, MU_c_b2(sigma)), epsilon))

\* b1 = (epsilon ** (-sigma)) - 2 * b2 * epsilon
MU_c_b1(sigma) ==
    RSub(RPowI(epsilon, -sigma), RMul(RMul(Two, MU_c_b2(sigma)), epsilon))

\* c_s_cnstr = c_s < epsilon
c_s_cnstr(c_s) == RLt(c_s, epsilon)

\* One element: 2 * b2 * c_s + b1 if constrained, c_s ** (-sigma) otherwise.
MU_c_elem(c_s, sigma) ==
    IF c_s_cnstr(c_s)
    THEN RAdd(RMul(RMul(Two, MU_c_b2(sigma)), c_s), MU_c_b1(sigma))
    ELSE RPowI(c_s, -sigma)

\* The value MU_c of the branch np.ndim(cvec) == 0 or == 1.
MU_c_value(cs, sigma) ==
    Pack(cs.nd = 0, [i \in 1..Shape(cs) |-> MU_c_elem(Elem(cs, i), sigma)])

\* The locals b1, b2 the branch taken has assigned: the scalar branch assigns
\* them only when c_s < epsilon, the vector branch always.
MU_c_assigned(cs) ==
    IF cs.nd = 0 /\ ~c_s_cnstr(cs.v) THEN {} ELSE {"b1", "b2"}

\* A call.  With graph the plot block reads b2 and b1 (MU_stitch =
\* 2 * b2 * cvec_stitch + b1): reading an unassigned local raises.
MU_c_stitch(cs, sigma, graph) ==
    IF graph /\ ~({"b1", "b2"} \subseteq MU_c_assigned(cs))
    THEN [status |-> "UnboundLocalError", plot |-> FALSE]
    ELSE [status |-> "ok", val |-> MU_c_value(cs, sigma), plot |-> graph]

(***************************************************************************)
(* Surd values: [r, s, base] stands for r + s * base^((1-ups)/ups), the    *)
(* exponent being that of the call's upsilon.  A value with s = 0 is the   *)
(* number r and has base 1.  NonFinite stands for the inf or nan of a      *)
(* floating-point division by zero.                                        *)
(***************************************************************************)
VRat(q) == [r |-> q, s |-> Zero, base |-> One]

NonFinite == [r |-> Zero, s |-> Zero, base |-> Zero]

IsNonFinite(v) == v.base = Zero

\* a ** ((1 - upsilon) / upsilon) for a > 0: a number when the exponent is 0
\* or the root is rational, the surd itself otherwise.
PowEll(a, upsilon) ==
    IF upsilon = 1 THEN VRat(One)
    ELSE IF HasRoot(a, upsilon) THEN VRat(RPowI(RRoot(a, upsilon), 1 - upsilon))
    ELSE [r |-> Zero, s |-> One, base |-> a]

\* q * v
VScale(q, v) ==
    IF IsNonFinite(v) THEN NonFinite
    ELSE IF q = Zero \/ v.s = Zero THEN VRat(RMul(q, v.r))
    ELSE [r |-> RMul(q, v.r), s |-> RMul(q, v.s), base |-> v.base]

\* u + v, for u and v over the same surd.
VAdd(u, v) ==
    IF IsNonFinite(u) \/ IsNonFinite(v) THEN NonFinite
    ELSE LET s == RAdd(u.s, v.s)
         IN  IF s = Zero THEN VRat(RAdd(u.r, v.r))
             ELSE [r |-> RAdd(u.r, v.r), s |-> s,
                   base |-> IF u.s = Zero THEN v.base ELSE u.base]

VSub(u, v) == VAdd(u, VScale(RNeg(One), v))

\* Whether v = 0: r + s * base^((1-ups)/ups) = 0 iff base^((1-ups)/ups) = -r/s,
\* iff -r/s > 0 and (-r/s)^ups = base^(1-ups).
VIsZero(v, upsilon) ==
    /\ ~IsNonFinite(v)
    /\ IF v.s = Zero THEN v.r = Zero
       ELSE LET t == RNeg(RDiv(v.r, v.s))
            IN  RSign(t) > 0 /\ RPowI(t, upsilon) = RPowI(v.base, 1 - upsilon)

\* q / v for v a number or a pure surd multiple; a zero v gives inf or nan.
VDivQ(q, v, upsilon) ==
    IF IsNonFinite(v) \/ VIsZero(v, upsilon) THEN NonFinite
    ELSE IF v.s = Zero THEN VRat(RDiv(q, v.r))
    ELSE VScale(RDiv(q, v.s), [r |-> Zero, s |-> One, base |-> RInv(v.base)])

(***************************************************************************)
(* MDU_n_stitch                                                            *)
(***************************************************************************)
\* params is the triple <<l_tilde, b_ellip, upsilon>>.
\* eps_low = 0.000001
eps_low == Dec(1, -6)

\* eps_high = l_tilde - 0.000001
eps_high(l_tilde) == RSub(l_tilde, Dec(1, -6))

\* (b_ellip / l_tilde) * ((n / l_tilde) ** (upsilon - 1)) *
\* ((1 - ((n / l_tilde) ** upsilon)) ** ((1 - upsilon) / upsilon))
MDU_ellip(n, params) ==
    LET l_tilde == params[1]
        b_ellip == params[2]
        upsilon == params[3]
    IN  VScale(RMul(RDiv(b_ellip, l_tilde), RPowI(RDiv(n, l_tilde), upsilon - 1)),
               PowEll(RSub(One, RPowI(RDiv(n, l_tilde), upsilon)), upsilon))

\* The slope coefficient b2 (eps = eps_low) or d2 (eps = eps_high):
\* 0.5 * b_ellip * (l_tilde ** (-upsilon)) * (upsilon - 1) *
\* (eps ** (upsilon - 2)) * ((1 - ((eps / l_tilde) ** upsilon)) **
\* ((1 - upsilon) / upsilon)) * (1 + ((eps / l_tilde) ** upsilon) *
\* ((1 - ((eps / l_tilde) ** upsilon)) ** (-1)))
MDU_slope(eps, params) ==
    LET l_tilde == params[1]
        b_ellip == params[2]
        upsilon == params[3]
        one_m   == RSub(One, RPowI(RDiv(eps, l_tilde), upsilon))
    IN  VScale(RMul(RMul(RMul(RMul(Half, b_ellip), RPowI(l_tilde, -upsilon)),
                         RMul(Q(upsilon - 1, 1), RPowI(eps, upsilon - 2))),
                    RAdd(One, RMul(RPowI(RDiv(eps, l_tilde), upsilon),
                                   RPowI(one_m, -1)))),
               PowEll(one_m, upsilon))

\* 2 * b2 * n + b1, respectively 2 * d2 * n + d1, for the slope b2 (d2) and
\* the intercept b1 (d1): the elliptical expression at eps, at_eps, minus
\* 2 * slope * eps.
quad_of(n, eps, slope, at_eps) ==
    VAdd(VScale(RMul(Two, n), slope),
         VSub(at_eps, VScale(RMul(Two, eps), slope)))

MDU_quad(n, eps, params) ==
    quad_of(n, eps, MDU_slope(eps, params), MDU_ellip(eps, params))

\* The lower test against 0 in place of eps_low: not what the code computes.
n_s_low_zero(n) == RLt(n, Zero)

n_s_low(n) == RLt(n, eps_low)

n_s_high(n, params) == RLt(eps_high(params[1]), n)

\* n_s_uncstr = (n_s >= eps_low) and (n_s <= eps_high)
n_s_uncstr(n, params) == RLe(eps_low, n) /\ RLe(n, eps_high(params[1]))

\* The branch of the scalar path: if n_s_uncstr ... elif n_s_low ... elif
\* n_s_high.
scalar_branch(n, params) ==
    IF n_s_uncstr(n, params) THEN "uncstr"
    ELSE IF n_s_low(n) THEN "low" ELSE "high"

\* The branch that decides an element of the vector path: MDU_n[nvec_uncstr]
\* is written first (nvec_uncstr = ~nvec_low and ~nvec_high), then
\* MDU_n[nvec_low], then MDU_n[nvec_high]: the last write to an element stands.
vector_branch(n, params) ==
    IF n_s_high(n, params) THEN "high"
    ELSE IF n_s_low(n) THEN "low" ELSE "uncstr"

\* The three expressions for MDU_n.
MDU_branch(n, params, branch) ==
    IF branch = "uncstr" THEN MDU_ellip(n, params)
    ELSE MDU_quad(n, IF branch = "low" THEN eps_low ELSE eps_high(params[1]),
                  params)

MDU_n_value(ns, params) ==
    Pack(ns.nd = 0,
         [i \in 1..Shape(ns) |->
             MDU_branch(Elem(ns, i), params,
                        IF ns.nd = 0 THEN scalar_branch(Elem(ns, i), params)
                        ELSE vector_branch(Elem(ns, i), params))])

\* The locals among b1, b2, d1, d2 the branch taken has assigned: the scalar
\* branch none (unconstrained), b2 and b1 (low) or d2 and d1 (high); the
\* vector branch all four.
MDU_n_assigned(ns, params) ==
    IF ns.nd = 1 THEN {"b1", "b2", "d1", "d2"}
    ELSE IF n_s_uncstr(ns.v, params) THEN {}
    ELSE IF n_s_low(ns.v) THEN {"b1", "b2"}
    ELSE {"d1", "d2"}

\* A call.  With graph the plot block reads b2, b1, d2 and d1.
MDU_n_stitch(ns, params, graph) ==
    IF graph /\ ~({"b1", "b2", "d1", "d2"} \subseteq MDU_n_assigned(ns, params))
    THEN [status |-> "UnboundLocalError", plot |-> FALSE]
    ELSE [status |-> "ok", val |-> MDU_n_value(ns, params), plot |-> graph]

(***************************************************************************)
(* get_n_errors                                                            *)
(***************************************************************************)
\* The percent form without its "- 1": not what the code computes.
n_error_elem_ratio(w, mu_c, chi_n, mdu_n, tau_l, upsilon, diff) ==
    LET lhs == RMul(RMul(RSub(One, tau_l), w), mu_c)
    IN  IF diff THEN VSub(VRat(lhs), VScale(chi_n, mdu_n))
        ELSE VDivQ(lhs, VScale(chi_n, mdu_n), upsilon)

\* One element of
\*   ((1-tau_l)*w * mu_c) - chi_n_vec * mdu_n                  (diff)
\*   (((1-tau_l)*w * mu_c) / (chi_n_vec * mdu_n)) - 1          (otherwise)
n_error_elem(w, mu_c, chi_n, mdu_n, tau_l, upsilon, diff) ==
    LET lhs == RMul(RMul(RSub(One, tau_l), w), mu_c)
    IN  IF diff THEN VSub(VRat(lhs), VScale(chi_n, mdu_n))
        ELSE VSub(VDivQ(lhs, VScale(chi_n, mdu_n), upsilon), VRat(One))

\* The elementwise arithmetic of get_n_errors on its arrays.
n_errors_np(w, mu_c, chi, mdu_n, tau_l, upsilon, diff) ==
    Pack(\A a \in {w, mu_c, chi, mdu_n} : a.nd = 0,
         [i \in 1..MaxOf({Shape(a) : a \in {w, mu_c, chi, mdu_n}}) |->
             n_error_elem(Elem(w, i), Elem(mu_c, i), Elem(chi, i),
                          Elem(mdu_n, i), tau_l, upsilon, diff)])

\* n_args is <<w, cvec, sigma, l_tilde, chi_n_vec, b_ellip, upsilon, tau_l,
\* diff>>; w, cvec and chi_n_vec are arrays, ns the array nvec.
get_n_errors(ns, n_args) ==
    n_errors_np(n_args[1], MU_c_stitch(n_args[2], n_args[3], FALSE).val,
                n_args[5],
                MDU_n_stitch(ns, <<n_args[4], n_args[6], n_args[7]>>, FALSE).val,
                n_args[8], n_args[7], n_args[9])

(***************************************************************************)
(* get_b_errors                                                            *)
(***************************************************************************)
\* cvec[:-1] and cvec[1:] of a sequence
AllButLast(s) == SubSeq(s, 1, Len(s) - 1)

AllButFirst(s) == SubSeq(s, 2, Len(s))

\* One element of
\*   (beta * (1 + (1-tau_k)*r) * mu_cp1) - mu_c                (diff)
\*   ((beta * (1 + (1-tau_k)*r) * mu_cp1) / mu_c) - 1          (otherwise)
b_error_elem(beta, tau_k, r, mu_cp1, mu_c, diff) ==
    LET lhs == RMul(RMul(beta, RAdd(One, RMul(RSub(One, tau_k), r))), mu_cp1)
    IN  IF diff THEN RSub(lhs, mu_c) ELSE RSub(RDiv(lhs, mu_c), One)

\* The arithmetic of get_b_errors on r and the two (p-1,) vectors, which is
\* numpy's: a (p,) vector r is stretched against one entry, matches none when
\* p = 1 and cannot be combined with two or more (ValueError: operands could
\* not be broadcast together).
b_errors_np(beta, tau_k, r, mu_cp1, mu_c, diff) ==
    IF ~CanBroadcast(Shape(r), Len(mu_cp1.v)) THEN [status |-> "ValueError"]
    ELSE [status |-> "ok",
          val |-> Vec([i \in 1..BroadcastLen(Shape(r), Len(mu_cp1.v)) |->
                         b_error_elem(beta, tau_k, Elem(r, i), Elem(mu_cp1, i),
                                      Elem(mu_c, i), diff)])]

\* params is <<beta, sigma, tau_k>>, r an array, cs the (p,) array cvec.
get_b_errors(params, r, cs, diff) ==
    b_errors_np(params[1], params[3], r,
                MU_c_stitch(Vec(AllButFirst(cs.v)), params[2], FALSE).val,
                MU_c_stitch(Vec(AllButLast(cs.v)), params[2], FALSE).val, diff)

(***************************************************************************)
(* bn_solve                                                                *)
(***************************************************************************)
\* The savings with the 0.0 put in front of guesses[:S - 1] in place of
\* after it: not what the code computes.
b_guess_zero_first(guesses, S) == <<Zero>> \o SubSeq(guesses, 1, S - 1)

\* b_guess = np.append(np.array(guesses[:S - 1]), 0.0)
b_guess_of(guesses, S) == Append(SubSeq(guesses, 1, S - 1), Zero)

\* n_guess = np.array(guesses[S - 1:])
n_guess_of(guesses, S) == SubSeq(guesses, S, Len(guesses))

\* Wealth taken to be the savings of the same age, without the shift by one
\* age: not what the code computes.
b_s_unshifted(guesses, S) == b_guess_of(guesses, S)

\* b_s = np.array([0] + list(b_guess[:-1]))
b_s_of(guesses, S) == <<Zero>> \o AllButLast(b_guess_of(guesses, S))

\* b_args is <<r, w, x, S, beta, sigma, l_tilde, b_ellip, upsilon, chi_n_vec,
\* tax_params, diff>>; r, w, x and chi_n_vec are arrays, guesses a sequence.
bn_cons(guesses, b_args) ==
    get_cons(b_args[1], b_args[2], Vec(b_s_of(guesses, b_args[4])),
             Vec(b_guess_of(guesses, b_args[4])),
             Vec(n_guess_of(guesses, b_args[4])), b_args[3], b_args[11])

\* return list(error1.flatten()) + list(error2.flatten())
bn_list(error1, error2) ==
    IF error1.status # "ok" THEN error1
    ELSE [status |-> "ok", val |-> error1.val.v \o error2.v]

\* The two residual vectors from cons.
bn_errors(guesses, b_args, cons) ==
    bn_list(get_b_errors(<<b_args[5], b_args[6], tau_k_of(b_args[11])>>,
                         b_args[1], cons, b_args[12]),
            get_n_errors(Vec(n_guess_of(guesses, b_args[4])),
                         <<b_args[2], cons, b_args[6], b_args[7], b_args[10],
                           b_args[8], b_args[9], tau_l_of(b_args[11]),
                           b_args[12]>>))

bn_solve(guesses, b_args) == bn_errors(guesses, b_args, bn_cons(guesses, b_args))

(***************************************************************************)
(* get_cnb_vecs and c1_bSp1err                                             *)
(***************************************************************************)
\* Python indexing of a sequence: s[i] for i >= 0, s[i] from the end for i < 0.
PyIdx(s, i) == IF i >= 0 THEN s[i + 1] ELSE s[Len(s) + i + 1]

\* s with s[i] = x assigned (i >= 0)
PySet(s, i, x) == [s EXCEPT ![i + 1] = x]

\* An array of p entries that is not cleared (np.empty: whatever the memory
\* held, here ones): not what the code computes.
zeros_uncleared(p) == [i \in 1..p |-> One]

\* np.zeros(p)
zeros(p) == [i \in 1..p |-> Zero]

\* a ** (1 / sigma), for the a whose root is rational
PowInv(a, sigma) == IF sigma = 1 THEN a ELSE RRoot(a, sigma)

\* The roll-forward of wealth with the wage of the period after i in place of
\* the wage of period i: not what the code computes.
next_b_later_wage(rp, wp, bv, nv, cv, i, x, tax_params) ==
    RSub(RSub(RAdd(RSub(RAdd(RMul(RAdd(One, PyIdx(rp, i)), PyIdx(bv, i)),
                             RMul(PyIdx(wp, i + 1), PyIdx(nv, i))),
                        PyIdx(cv, i)),
                   x),
              RMul(RMul(tau_k_of(tax_params), PyIdx(rp, i)), PyIdx(bv, i))),
         RMul(RMul(tau_l_of(tax_params), PyIdx(wp, i + 1)), PyIdx(nv, i)))

\* (1 + rpath[i]) * bvec[i] + wpath[i] * nvec[i] - cvec[i] + x
\* - tau_k*rpath[i]*bvec[i] - tau_l*wpath[i]*nvec[i]
\* as written in the loop (i = per - 1) and after it (i = -1), with the
\* transfer x the caller of this expression reads.
next_b(rp, wp, bv, nv, cv, i, x, tax_params) ==
    RSub(RSub(RAdd(RSub(RAdd(RMul(RAdd(One, PyIdx(rp, i)), PyIdx(bv, i)),
                             RMul(PyIdx(wp, i), PyIdx(nv, i))),
                        PyIdx(cv, i)),
                   x),
              RMul(RMul(tau_k_of(tax_params), PyIdx(rp, i)), PyIdx(bv, i))),
         RMul(RMul(tau_l_of(tax_params), PyIdx(wp, i)), PyIdx(nv, i)))

\* The roll-forward of consumption with the interest rate of period per - 1
\* in place of that of period per: not what the code computes.
next_c_earlier_rate(cv, rp, k, beta, sigma, tax_params) ==
    RMul(PyIdx(cv, k - 1),
         PowInv(RMul(beta, RAdd(One, RMul(RSub(One, tau_k_of(tax_params)),
                                          PyIdx(rp, k - 1)))), sigma))

\* cvec[per - 1] * ((beta * (1 + (1-tau_k)*rpath[per])) ** (1 / sigma))
next_c(cv, rp, k, beta, sigma, tax_params) ==
    RMul(PyIdx(cv, k - 1),
         PowInv(RMul(beta, RAdd(One, RMul(RSub(One, tau_k_of(tax_params)),
                                          PyIdx(rp, k)))), sigma))

\* The transfer read by the statement after the loop: xpath[per-1], per being
\* the loop variable as the last iteration left it.
x_after_loop(xp, last_per) == PyIdx(xp, last_per - 1)

\* The labor values a solve may return for the time endowment l_tilde.
NGrid(l_tilde) == {RMul(Q(3, 5), l_tilde), RMul(Q(4, 5), l_tilde)}

\* The solve started from l_tilde in place of the start it is handed: not what
\* the code computes.
opt_root_from_endowment(x0, l_tilde) ==
    {r \in [x0 : {l_tilde}, x : NGrid(l_tilde), success : BOOLEAN] :
        ~r.success => r.x = RMul(Q(4, 5), l_tilde)}

\* opt.root(get_n_errors, l_tilde / 2, args=(n_args), method='lm', tol=1e-14,
\* options={'maxiter': 500}): the library's result object, of which the
\* model keeps the start x0, the final iterate x and the flag success.  The
\* library promises no more than that: success says the iteration met its
\* tolerance within the budget, the iterate is whatever it stopped at.
opt_root(x0, l_tilde) ==
    {r \in [x0 : {x0}, x : NGrid(l_tilde), success : BOOLEAN] :
        ~r.success => r.x = RMul(Q(4, 5), l_tilde)}

\* The residual get_n_errors leaves at the iterate of period k (0-based).
n_resid(a, cv, rn, k) ==
    get_n_errors(Vec(<<rn[k + 1].x>>),
                 <<Sc(PyIdx(a.wpath, k)), Sc(PyIdx(cv, k)), a.params[3],
                   a.params[4], Sc(PyIdx(a.params[7], k)), a.params[5],
                   a.params[6], tau_l_of(a.params[8]), a.params[9]>>)

(***************************************************************************)
(* The inputs of the calls.                                                *)
(***************************************************************************)
\* The longest path and the longest lifetime S.
MaxP == 3

TaxSet == {<<Zero, Zero, Zero>>, <<Q(1, 4), Q(1, 2), Zero>>,
           <<Q(1, 4), Q(1, 2), Q(1, 10)>>}

beta0 == Q(4, 5)

\* Interest rates r with beta0 * (1 + (1 - tau_k) * r) one of 1 and 36/25,
\* whose roots are rational.
RatesOf(tax_params) ==
    <<RDiv(Q(1, 4), RSub(One, tau_k_of(tax_params))),
      RDiv(Q(4, 5), RSub(One, tau_k_of(tax_params)))>>

\* The path of length p that alternates between s[1] and s[2], s[2] first.
AltPath(s, p) == [i \in 1..p |-> IF i % 2 = 1 THEN s[2] ELSE s[1]]

ConstPath(x, p) == [i \in 1..p |-> x]

\* All sequences of length 1..m over S.
SeqsUpTo(S, m) == UNION {[1..k -> S] : k \in 1..m}

\* params of get_cnb_vecs: <<b_init, beta, sigma, l_tilde, b_ellip, upsilon,
\* chi_n_vec, tax_params, diff>>
\* c_init between 0 and epsilon is given on the paths of less than MaxP
\* periods.
CnbInputs ==
    {a \in
        {[c_init |-> cb[1], rpath |-> AltPath(RatesOf(tax), p),
          wpath |-> AltPath(<<One, Two>>, p),
          xpath |-> IF xc THEN ConstPath(Zero, p)
                    ELSE AltPath(<<Zero, Q(1, 4)>>, p),
          params |-> <<cb[2], beta0, sg, One, One, 2, ConstPath(One, p), tax,
                       TRUE>>] :
            cb \in {<<One, Zero>>, <<One, Half>>, <<Dec(5, -5), Zero>>,
                    <<Q(-1, 2), Zero>>},
            sg \in {1, 2},
            tax \in {<<Zero, Zero, Zero>>, <<Q(1, 4), Q(1, 2), Q(1, 10)>>},
            p \in 1..MaxP, xc \in BOOLEAN} :
        a.c_init = Dec(5, -5) => Len(a.rpath) < MaxP}

\* Economies of three periods with zero taxes, zero transfers, b_init = 0,
\* constant r = 3 and w, beta = 1/2 and sigma = 1, whose chi_n_vec makes
\* n = 3/5 the labor supply of every period (MDU_n is 3/4 there) and whose
\* c_init = 9w/20 makes the terminal savings zero; with w = 1e-4 consumption
\* starts below epsilon.
ToyInputs ==
    {[c_init |-> RMul(Q(9, 20), w), rpath |-> ConstPath(Q(3, 1), 3),
      wpath |-> ConstPath(w, 3), xpath |-> ConstPath(Zero, 3),
      params |-> <<Zero, Half, 1, One, One, 2,
                   [t \in 1..3 |->
                       RDiv(RMul(w, MU_c_elem(RMul(Q(9 * IPow(2, t - 1), 20),
                                                   w), 1)), Q(3, 4))],
                   <<Zero, Zero, Zero>>, TRUE>>] : w \in {One, Dec(1, -4)}}

\* The calls made through c1_bSp1err.
C1Inputs ==
    {a \in CnbInputs : a.c_init = One /\ a.params[3] = 1} \cup ToyInputs

\* Scalar calls of get_cons, and calls on paths of one length.
GetConsInputs ==
    {[r |-> Sc(r), w |-> Sc(w), b |-> Sc(b), b_sp1 |-> Sc(b1), n |-> Sc(n),
      x |-> Sc(x), tax_params |-> tax] :
        r \in {Zero, Half}, w \in {One, Two}, b \in {Zero, One},
        b1 \in {Zero, Half}, n \in {Q(3, 5), Q(4, 5)}, x \in {Zero, Q(1, 4)},
        tax \in TaxSet}
    \cup
    {[r |-> IF rs THEN Sc(Half) ELSE Vec(AltPath(<<Zero, Half>>, p)),
      w |-> IF rs THEN Sc(Two) ELSE Vec(AltPath(<<One, Two>>, p)),
      b |-> Vec(AltPath(<<Zero, One>>, p)),
      b_sp1 |-> Vec(AltPath(<<Half, Zero>>, p)),
      n |-> Vec(AltPath(<<Q(3, 5), Q(4, 5)>>, p)),
      x |-> Vec(AltPath(<<Zero, Q(1, 4)>>, p)), tax_params |-> tax] :
        rs \in BOOLEAN, p \in 1..MaxP, tax \in TaxSet}

\* sigma = 0 is outside the documented range sigma >= 1.
SigmaSet == {0, 1, 2}

MUcInputs ==
    {[cvec |-> cs, sigma |-> sg, graph |-> g] :
        cs \in {Sc(c) : c \in {Q(-1, 2), Zero, Dec(5, -5), epsilon, One, Two}}
               \cup {Vec(q) : q \in SeqsUpTo({Q(-1, 2), Dec(5, -5), epsilon,
                                              Two}, MaxP - 1)},
        sg \in SigmaSet, g \in BOOLEAN}

\* <<l_tilde, b_ellip, upsilon>>; upsilon = 1 is outside the documented range
\* upsilon > 1.  With the time endowment 4e-6 the bounds eps_low and eps_high
\* are a quarter and three quarters of it; with the time endowment 1.5e-6
\* eps_high = 0.5e-6 lies below eps_low = 1e-6.
MDUParamSet ==
    {<<One, One, 2>>, <<Dec(4, -6), Half, 2>>, <<One, One, 1>>,
     <<Dec(15, -7), Half, 2>>}

\* Labor values: inside the bounds for l_tilde = 1; below, at, between and
\* above the bounds for l_tilde = 4e-6; below eps_high and between eps_high
\* and eps_low for l_tilde = 1.5e-6.
NSetOf(params) ==
    IF params[1] = One THEN {Q(3, 5), Q(4, 5), Half}
    ELSE IF params[1] = Dec(15, -7) THEN {Dec(25, -8), Dec(75, -8)}
    ELSE {Dec(-1, -6), Zero, Dec(1, -6), Dec(2, -6), Dec(3, -6), Dec(5, -6)}

MDUnInputs ==
    UNION {{[nvec |-> ns, params |-> pr, graph |-> g] :
               ns \in {Sc(n) : n \in NSetOf(pr)}
                      \cup {Vec(q) : q \in SeqsUpTo(NSetOf(pr), MaxP - 1)},
               g \in BOOLEAN} : pr \in MDUParamSet}

\* The labor vectors with the labor supply at which the lower line
\* 2*b2*n + b1 crosses zero, which for upsilon = 2 is eps_low^3 / l_tilde^2:
\* 6.25e-8 for l_tilde = 4e-6.
NAtZeroMDU(params) ==
    IF params[1] = Dec(4, -6) /\ params[3] = 2
    THEN {<<RDiv(RPowI(eps_low, 3), RPowI(params[1], 2))>>,
          <<Dec(2, -6), RDiv(RPowI(eps_low, 3), RPowI(params[1], 2))>>}
    ELSE {}

\* args of get_n_errors: <<w, cvec, sigma, l_tilde, chi_n_vec, b_ellip,
\* upsilon, tau_l, diff>>
GetNErrorsInput(pr, q, c, sg, tl, df) ==
    [nvec |-> Vec(q),
     args |-> <<Sc(Q(3, 4)), Vec(AltPath(<<c, One>>, Len(q))), sg, pr[1],
                Vec(ConstPath(One, Len(q))), pr[2], pr[3], tl, df>>]

\* params of get_b_errors: <<beta, sigma, tau_k>>; r a scalar or a (p,) path.
GetBErrorsInputs ==
    {[params |-> <<beta0, sg, tk>>,
      r |-> IF rs THEN Sc(Q(1, 4)) ELSE Vec(AltPath(<<Q(1, 4), Q(4, 5)>>, Len(q))),
      cvec |-> Vec(q), diff |-> df] :
        q \in SeqsUpTo({One, Two}, MaxP), sg \in SigmaSet,
        tk \in {Zero, Half}, rs \in BOOLEAN, df \in BOOLEAN}
    \cup
    {[params |-> <<beta0, 1, Zero>>, r |-> Sc(Q(1, 4)), cvec |-> Vec(q),
      diff |-> df] :
        q \in SeqsUpTo({Q(-1, 2), Dec(5, -5), One}, MaxP - 1), df \in BOOLEAN}

\* args of bn_solve: <<r, w, x, S, beta, sigma, l_tilde, b_ellip, upsilon,
\* chi_n_vec, tax_params, diff>>, r and w scalars; guesses has 2S - 1 entries:
\* S - 1 savings and S labor supplies.
BnSolveInput(S, bs, ns, sg, tax, xs, df) ==
    [guesses |-> bs \o ns,
     args |-> <<Sc(One), Sc(One),
                IF xs THEN Sc(Zero) ELSE Vec(AltPath(<<Zero, Q(1, 4)>>, S)),
                S, beta0, sg, One, One, 2, Vec(ConstPath(One, S)), tax, df>>]

(***************************************************************************)
(* The calls.  A call of a function that only computes is one step; a call *)
(* of get_cnb_vecs is one step for its start, one for each iteration of    *)
(* its loop and one for the statements after the loop.  Return hands the   *)
(* result to the caller, after which the next call can be made.            *)
(***************************************************************************)
NoLocals ==
    /\ per = -1
    /\ cvec = << >>
    /\ nvec = << >>
    /\ bvec = << >>
    /\ res_n = << >>

Init ==
    /\ fn = "none"
    /\ args = << >>
    /\ ret = << >>
    /\ pc = "idle"
    /\ NoLocals

\* What a call that only computes does to the state.
Computed(name, a, result) ==
    /\ fn' = name
    /\ args' = a
    /\ ret' = result
    /\ pc' = "done"
    /\ UNCHANGED <<per, cvec, nvec, bvec, res_n>>

Call_get_cons ==
    /\ pc = "idle"
    /\ \E a \in GetConsInputs :
           Computed("get_cons", a,
                    [status |-> "ok",
                     val |-> get_cons(a.r, a.w, a.b, a.b_sp1, a.n, a.x,
                                      a.tax_params)])

Call_MU_c_stitch ==
    /\ pc = "idle"
    /\ \E a \in MUcInputs :
           Computed("MU_c_stitch", a, MU_c_stitch(a.cvec, a.sigma, a.graph))

Call_MDU_n_stitch ==
    /\ pc = "idle"
    /\ \E a \in MDUnInputs :
           Computed("MDU_n_stitch", a, MDU_n_stitch(a.nvec, a.params, a.graph))

Called_get_n_errors(a) ==
    Computed("get_n_errors", a,
             [status |-> "ok", val |-> get_n_errors(a.nvec, a.args)])

Call_get_n_errors ==
    /\ pc = "idle"
    /\ \E pr \in MDUParamSet :
       \E q \in SeqsUpTo(NSetOf(pr) \ {Zero, Dec(3, -6)}, MaxP - 1)
                    \cup NAtZeroMDU(pr),
          sg \in {1, 2}, df \in BOOLEAN :
           Called_get_n_errors(
               GetNErrorsInput(pr, q, Half, sg,
                               IF sg = 1 THEN Zero ELSE Q(1, 4), df))

Call_get_b_errors ==
    /\ pc = "idle"
    /\ \E a \in GetBErrorsInputs :
           Computed("get_b_errors", a,
                    get_b_errors(a.params, a.r, a.cvec, a.diff))

Called_bn_solve(a) == Computed("bn_solve", a, bn_solve(a.guesses, a.args))

Call_bn_solve ==
    /\ pc = "idle"
    /\ \E S \in 1..MaxP :
       \E bs \in [1..(S - 1) -> {Zero, Q(1, 5)}],
          ns \in [1..S -> {Q(3, 5), Q(4, 5)}],
          sg \in {1, 2}, tax \in TaxSet \ {<<Q(1, 4), Q(1, 2), Zero>>},
          df \in BOOLEAN :
           Called_bn_solve(BnSolveInput(S, bs, ns, sg, tax, df = (sg = 1), df))

\* The first statements of get_cnb_vecs, reached directly or through
\* c1_bSp1err, which passes its arguments on: p = rpath.shape[0] and the
\* three np.zeros(p).
Call_get_cnb_vecs ==
    /\ pc = "idle"
    /\ \E a \in CnbInputs \cup ToyInputs,
          entry \in {"get_cnb_vecs", "c1_bSp1err"} :
           /\ entry = "c1_bSp1err" => a \in C1Inputs
           /\ fn' = entry
           /\ args' = a
           /\ pc' = "loop"
           /\ per' = -1
           /\ cvec' = zeros(Len(a.rpath))
           /\ nvec' = zeros(Len(a.rpath))
           /\ bvec' = zeros(Len(a.rpath))
           /\ res_n' = << >>
           /\ UNCHANGED ret

\* One iteration of for per in range(p).
LoopStep ==
    /\ pc = "loop"
    /\ per + 1 < Len(args.rpath)
    /\ LET k     == per + 1
           tax   == args.params[8]
           bv    == IF k = 0 THEN PySet(bvec, k, args.params[1])
                    ELSE PySet(bvec, k,
                               next_b(args.rpath, args.wpath, bvec, nvec, cvec,
                                      k - 1, PyIdx(args.xpath, k - 1), tax))
           cv    == IF k = 0 THEN PySet(cvec, k, args.c_init)
                    ELSE PySet(cvec, k,
                               next_c(cvec, args.rpath, k, args.params[2],
                                      args.params[3], tax))
       IN  \E result_n \in opt_root(RDiv(args.params[4], Two), args.params[4]) :
               /\ per' = k
               /\ bvec' = bv
               /\ cvec' = cv
               /\ nvec' = PySet(nvec, k, result_n.x)
               /\ res_n' = Append(res_n, result_n)
    /\ UNCHANGED <<fn, args, ret, pc>>

\* After the loop: b_Sp1 and the return; c1_bSp1err returns b_Sp1 alone.
AfterLoop ==
    /\ pc = "loop"
    /\ per + 1 = Len(args.rpath)
    /\ LET b_Sp1 == next_b(args.rpath, args.wpath, bvec, nvec, cvec, -1,
                           x_after_loop(args.xpath, per), args.params[8])
       IN  ret' = IF fn = "c1_bSp1err" THEN [status |-> "ok", val |-> b_Sp1]
                  ELSE [status |-> "ok", val |-> <<cvec, nvec, bvec, b_Sp1>>]
    /\ pc' = "done"
    /\ UNCHANGED <<fn, args, per, cvec, nvec, bvec, res_n>>

\* The caller takes the result; nothing of the call is kept.
Return ==
    /\ pc = "done"
    /\ fn' = "none"
    /\ args' = << >>
    /\ ret' = << >>
    /\ pc' = "idle"
    /\ per' = -1
    /\ cvec' = << >>
    /\ nvec' = << >>
    /\ bvec' = << >>
    /\ res_n' = << >>

Next ==
    \/ Call_get_cons
    \/ Call_MU_c_stitch
    \/ Call_MDU_n_stitch
    \/ Call_get_n_errors
    \/ Call_get_b_errors
    \/ Call_bn_solve
    \/ Call_get_cnb_vecs
    \/ LoopStep
    \/ AfterLoop
    \/ Return

Spec == Init /\ [][Next]_vars

\* A call of the shooter that has started runs on: the loop is a for over
\* range(p) in one thread, every inner solve stops within maxiter, and the
\* lines after the loop follow the last iteration.
Running ==
    /\ pc = "loop"
    /\ \/ pc' = "loop" /\ per' = per + 1
       \/ pc' = "done" /\ per' = per

\* The calls of get_cnb_vecs and c1_bSp1err alone.
ShooterNext ==
    \/ Call_get_cnb_vecs
    \/ LoopStep
    \/ AfterLoop
    \/ Return

FairSpec == Init /\ [][ShooterNext]_vars /\ WF_<<pc, per>>(Running)

(***************************************************************************)
(* Properties.  Indices of the paths are those of the code (from 0) in the *)
(* comments and those of sequences (from 1) in the formulas.               *)
(***************************************************************************)
\* A call of get_cnb_vecs, made directly or through c1_bSp1err.
InShooter == fn \in {"get_cnb_vecs", "c1_bSp1err"}

\* The terminal savings a finished call of the shooter has returned.
Returned_b_Sp1 == IF fn = "c1_bSp1err" THEN ret.val ELSE ret.val[4]

\* C1: after the loop of get_cnb_vecs over a path of length p >= 1 the
\* returned b_Sp1 is the budget identity on the last period's own state,
\* with the transfer x[p-1] of the last period, for every p and every
\* transfer path: it is the savings b_sp1 with
\* get_cons(r[p-1], w[p-1], b[p-1], b_sp1, n[p-1], x[p-1]) = c[p-1];
\* c1_bSp1err returns this value.
C1_TerminalSavingsUsesLastTransfer ==
    (pc = "done" /\ InShooter) =>
        LET p == Len(args.rpath)
        IN  cons_elem(args.rpath[p], args.wpath[p], bvec[p], Returned_b_Sp1,
                      nvec[p], args.xpath[p], args.params[8]) = cvec[p]

\* C2: get_cons returns (1+r)*b + w*n - b_sp1 + x - r*b*tau_k - w*n*tau_l,
\* which is the after-tax return on b plus the after-tax wage income plus
\* the transfer less the savings, for scalars and elementwise over paths of
\* one length, and is linear in b, n, b_sp1 and x: a change d of one of them
\* changes cons by (1 + (1-tau_k)*r)*d, (1-tau_l)*w*d, -d and d.
C2_GetConsContract ==
    (pc = "done" /\ fn = "get_cons") =>
        LET a     == args
            tau_l == a.tax_params[1]
            tau_k == a.tax_params[2]
            ops   == {a.r, a.w, a.b, a.b_sp1, a.n, a.x}
            Rb(i) == RAdd(One, RMul(RSub(One, tau_k), Elem(a.r, i)))
            Wn(i) == RMul(RSub(One, tau_l), Elem(a.w, i))
        IN  /\ ret.status = "ok"
            /\ ret.val.nd = IF \A o \in ops : o.nd = 0 THEN 0 ELSE 1
            /\ \A o \in ops : o.nd = 1 => Shape(ret.val) = Len(o.v)
            /\ \A i \in 1..Shape(ret.val) :
                   /\ Elem(ret.val, i)
                        = RAdd(RSub(RAdd(RMul(Rb(i), Elem(a.b, i)),
                                         RMul(Wn(i), Elem(a.n, i))),
                                    Elem(a.b_sp1, i)),
                               Elem(a.x, i))
                   /\ \A d \in {One, Q(-1, 2)} :
                          /\ cons_elem(Elem(a.r, i), Elem(a.w, i),
                                       RAdd(Elem(a.b, i), d), Elem(a.b_sp1, i),
                                       Elem(a.n, i), Elem(a.x, i), a.tax_params)
                               = RAdd(Elem(ret.val, i), RMul(Rb(i), d))
                          /\ cons_elem(Elem(a.r, i), Elem(a.w, i), Elem(a.b, i),
                                       Elem(a.b_sp1, i), RAdd(Elem(a.n, i), d),
                                       Elem(a.x, i), a.tax_params)
                               = RAdd(Elem(ret.val, i), RMul(Wn(i), d))
                          /\ cons_elem(Elem(a.r, i), Elem(a.w, i), Elem(a.b, i),
                                       RAdd(Elem(a.b_sp1, i), d), Elem(a.n, i),
                                       Elem(a.x, i), a.tax_params)
                               = RSub(Elem(ret.val, i), d)
                          /\ cons_elem(Elem(a.r, i), Elem(a.w, i), Elem(a.b, i),
                                       Elem(a.b_sp1, i), Elem(a.n, i),
                                       RAdd(Elem(a.x, i), d), a.tax_params)
                               = RAdd(Elem(ret.val, i), d)

\* A call of get_cons on paths of two or more periods with both income taxes
\* and nonzero wealth and labor has returned.
C2_Witness ==
    /\ pc = "done"
    /\ fn = "get_cons"
    /\ args.b.nd = 1
    /\ Len(args.b.v) >= 2
    /\ args.r.nd = 1
    /\ args.tax_params[1] # Zero
    /\ args.tax_params[2] # Zero
    /\ \E i \in 1..Len(args.b.v) : args.b.v[i] # Zero /\ args.r.v[i] # Zero
    /\ ret.val.nd = 1

\* C3: in get_cnb_vecs, after every iteration of the loop, bvec[0] = b_init,
\* cvec[0] = c_init, and for every period t >= 1 built so far bvec[t] is the
\* savings with get_cons(r[t-1], w[t-1], bvec[t-1], bvec[t], nvec[t-1],
\* x[t-1], tax_params) = cvec[t-1].
C3_BudgetRollForward ==
    (InShooter /\ pc \in {"loop", "done"} /\ per >= 0) =>
        /\ bvec[1] = args.params[1]
        /\ cvec[1] = args.c_init
        /\ \A t \in 1..per :
               get_cons(Sc(args.rpath[t]), Sc(args.wpath[t]), Sc(bvec[t]),
                        Sc(bvec[t + 1]), Sc(nvec[t]), Sc(args.xpath[t]),
                        args.params[8]) = Sc(cvec[t])

\* The loop has built three periods, with taxes, a transfer path that is not
\* constant and wealth that changes.
C3_Witness ==
    /\ InShooter
    /\ pc = "loop"
    /\ per >= 2
    /\ args.params[8][1] # Zero
    /\ args.xpath[1] # args.xpath[2]
    /\ bvec[2] # bvec[1]
    /\ bvec[3] # bvec[2]

\* The growth factor beta * (1 + (1-tau_k) * r) of consumption.
EulerFactor(r) ==
    RMul(args.params[2], RAdd(One, RMul(RSub(One, args.params[8][2]), r)))

C6_BErrorsCount ==
    (pc = "done" /\ fn = "get_b_errors") =>
        /\ ret.status = "ok"
        /\ Len(ret.val.v) = Len(args.cvec.v) - 1

\* C7: when a labor solve inside get_cnb_vecs does not converge, the call
\* (get_cnb_vecs or c1_bSp1err) ends with a signal of it and not with an
\* ordinary result.
C7_NonConvergenceSurfaced ==
    (pc = "done" /\ InShooter /\ \E t \in 1..Len(res_n) : ~res_n[t].success) =>
        ret.status # "ok"

\* Whether the call is one with sigma < 1, upsilon <= 1 or l_tilde <= 0.
InvalidParams ==
    CASE fn = "MU_c_stitch" -> args.sigma < 1
      [] fn = "MDU_n_stitch" ->
             args.params[3] <= 1 \/ RSign(args.params[1]) <= 0
      [] fn = "get_n_errors" ->
             \/ args.args[3] < 1
             \/ args.args[7] <= 1
             \/ RSign(args.args[4]) <= 0
      [] fn = "get_b_errors" -> args.params[2] < 1
      [] fn = "bn_solve" ->
             \/ args.args[6] < 1
             \/ args.args[9] <= 1
             \/ RSign(args.args[7]) <= 0
      [] InShooter ->
             \/ args.params[3] < 1
             \/ args.params[6] <= 1
             \/ RSign(args.params[4]) <= 0
      [] OTHER -> FALSE

\* C8: a call of an entry point with sigma < 1, upsilon <= 1 or l_tilde <= 0
\* ends in a validation error; it returns no numeric result.
C8_InvalidParamsRejected ==
    (pc = "done" /\ InvalidParams) => ret.status = "ValidationError"

\* C9: MU_c_stitch and MDU_n_stitch called with graph=True return the value
\* they return with graph=False, for scalars and vectors on every branch.
C9_GraphLeavesValue ==
    (pc = "done" /\ fn \in {"MU_c_stitch", "MDU_n_stitch"} /\ args.graph) =>
        /\ ret.status = "ok"
        /\ ret.val = IF fn = "MU_c_stitch"
                     THEN MU_c_value(args.cvec, args.sigma)
                     ELSE MDU_n_value(args.nvec, args.params)

\* C10: for sigma >= 1 MU_c_stitch returns c^(-sigma) for c >= epsilon and
\* the line 2*b2*c + b1 for c < epsilon, negative c included, with b2 =
\* -sigma*epsilon^(-sigma-1)/2 and b1 = epsilon^(-sigma) - 2*b2*epsilon; at
\* epsilon the line has the value epsilon^(-sigma) and the slope
\* -sigma*epsilon^(-sigma-1) of the power function.
C10_MUcStitch ==
    (pc = "done" /\ fn = "MU_c_stitch" /\ args.sigma >= 1 /\ ~args.graph) =>
        LET sg    == args.sigma
            slope == RMul(Q(-sg, 1), RPowI(epsilon, (-sg) - 1))
            b2    == RDiv(slope, Two)
            b1    == RSub(RPowI(epsilon, -sg), RMul(RMul(Two, b2), epsilon))
        IN  /\ ret.status = "ok"
            /\ ret.val.nd = args.cvec.nd
            /\ Shape(ret.val) = Shape(args.cvec)
            /\ \A i \in 1..Shape(args.cvec) :
                   IF RLe(epsilon, Elem(args.cvec, i))
                   THEN RMul(Elem(ret.val, i), RPowI(Elem(args.cvec, i), sg))
                          = One
                   ELSE Elem(ret.val, i)
                          = RAdd(RMul(RMul(Two, b2), Elem(args.cvec, i)), b1)
            /\ RAdd(RMul(RMul(Two, MU_c_b2(sg)), epsilon), MU_c_b1(sg))
                 = RPowI(epsilon, -sg)
            /\ RMul(Two, MU_c_b2(sg)) = slope

\* A call of MU_c_stitch with sigma = 2 on a negative scalar c has returned
\* a value.
C10_Witness ==
    /\ pc = "done"
    /\ fn = "MU_c_stitch"
    /\ args.sigma = 2
    /\ ~args.graph
    /\ args.cvec.nd = 0
    /\ RSign(args.cvec.v) < 0
    /\ ret.status = "ok"
    /\ RSign(ret.val.v) > 0

C12_VectorAsScalars ==
    /\ (pc = "done" /\ fn = "MU_c_stitch" /\ ~args.graph /\ args.sigma >= 1
          /\ args.cvec.nd = 1) =>
           /\ ret.status = "ok"
           /\ \A i \in 1..Len(args.cvec.v) :
                  ret.val.v[i]
                    = MU_c_stitch(Sc(args.cvec.v[i]), args.sigma, FALSE).val.v
    /\ (pc = "done" /\ fn = "MDU_n_stitch" /\ ~args.graph
          /\ args.params[3] > 1 /\ RSign(args.params[1]) > 0
          /\ RSign(args.params[2]) > 0 /\ args.nvec.nd = 1) =>
           /\ ret.status = "ok"
           /\ \A i \in 1..Len(args.nvec.v) :
                  ret.val.v[i]
                    = MDU_n_stitch(Sc(args.nvec.v[i]), args.params, FALSE).val.v

\* A finished call of the shooter for three periods with zero taxes, zero
\* transfers, constant r and w and b_init = 0 that returned b_Sp1 = 0 after
\* labor solves that each returned an exact root of get_n_errors.
ShootingSolved ==
    /\ pc = "done"
    /\ InShooter
    /\ Len(args.rpath) = 3
    /\ args.params[8][1] = Zero
    /\ args.params[8][2] = Zero
    /\ args.params[1] = Zero
    /\ \A t \in 1..3 :
           /\ args.xpath[t] = Zero
           /\ args.rpath[t] = args.rpath[1]
           /\ args.wpath[t] = args.wpath[1]
    /\ Returned_b_Sp1 = Zero
    /\ \A k \in 0..2 :
           VIsZero(n_resid(args, cvec, res_n, k).v[1], args.params[6])

\* The arguments of bn_solve for the economy of the shooter's call.
JointArgs ==
    <<Sc(args.rpath[1]), Sc(args.wpath[1]), Sc(Zero), 3, args.params[2],
      args.params[3], args.params[4], args.params[5], args.params[6],
      Vec(args.params[7]), args.params[8], args.params[9]>>

\* C13: for S = 3, zero taxes, zero transfers, constant r and w and
\* b_init = 0, when get_cnb_vecs has run at a c_init for which b_Sp1 is 0,
\* each labor solve having returned an exact root, the vector of its savings
\* bvec[1..2] and its labor nvec is a zero of bn_solve, and the consumption
\* bn_solve derives through get_cons is the shooter's cvec.
C13_SolvePathsAgree ==
    ShootingSolved =>
        /\ bn_cons(<<bvec[2], bvec[3]>> \o nvec, JointArgs) = Vec(cvec)
        /\ LET res == bn_solve(<<bvec[2], bvec[3]>> \o nvec, JointArgs)
           IN  /\ res.status = "ok"
               /\ \A k \in 1..2 : res.val[k] = Zero
               /\ \A k \in 3..5 : VIsZero(res.val[k], args.params[6])

\* C13, for consumption at or above epsilon in every period: under the
\* conditions of C13 the vector of the shooter's savings bvec[1..2] and labor
\* nvec is a zero of bn_solve, and the consumption bn_solve derives through
\* get_cons is the shooter's cvec.
C13_SolvePathsAgreeAboveEpsilon ==
    (ShootingSolved /\ \A t \in 1..3 : RLe(epsilon, cvec[t])) =>
        C13_SolvePathsAgree

\* A call of the shooter on such an economy has returned b_Sp1 = 0 from exact
\* labor roots, with growing consumption at or above epsilon and nonzero
\* savings.
C13_Witness ==
    /\ ShootingSolved
    /\ \A t \in 1..3 : RLe(epsilon, cvec[t])
    /\ RLt(cvec[1], cvec[2])
    /\ bvec[2] # Zero
    /\ bvec[3] # bvec[2]

\* C14: one call of get_cnb_vecs on a path of length p performs exactly p
\* labor solves, one per period in the order 0..p-1, and then returns.  While
\* the call runs, the solves done so far are those of periods 0..per, each
\* started from l_tilde/2 (whatever the solve before it returned) and each
\* stored in nvec at its period, and nothing of a later period is computed
\* yet; an iteration moves to the next period, adds one solve, sets that
\* period's cvec from the values of the period before, computes that period's
\* bvec from the nvec stored before the iteration, and changes nothing of
\* the earlier periods; and a call that has started returns, with p solves.
C14_LaborSolvesInOrder ==
    /\ []((InShooter /\ pc \in {"loop", "done"}) =>
            /\ Len(res_n) = per + 1
            /\ per < Len(args.rpath)
            /\ pc = "done" => Len(res_n) = Len(args.rpath)
            /\ \A t \in 1..Len(res_n) :
                   /\ res_n[t].x0 = RDiv(args.params[4], Two)
                   /\ nvec[t] = res_n[t].x
            /\ \A t \in (per + 2)..Len(args.rpath) :
                   cvec[t] = Zero /\ nvec[t] = Zero /\ bvec[t] = Zero)
    /\ [][(pc = "loop" /\ pc' = "loop") =>
            /\ per' = per + 1
            /\ Len(res_n') = Len(res_n) + 1
            /\ cvec'[per' + 1] =
                   IF per' = 0 THEN args.c_init
                   ELSE next_c(cvec, args.rpath, per', args.params[2],
                               args.params[3], args.params[8])
            /\ per' > 0 =>
                   /\ nvec[per'] = res_n[per'].x
                   /\ bvec'[per' + 1] =
                          next_b(args.rpath, args.wpath, bvec, nvec, cvec,
                                 per' - 1, PyIdx(args.xpath, per' - 1),
                                 args.params[8])
            /\ \A t \in 1..(per + 1) :
                   /\ res_n'[t] = res_n[t]
                   /\ cvec'[t] = cvec[t]
                   /\ nvec'[t] = nvec[t]
                   /\ bvec'[t] = bvec[t]]_vars
    /\ (pc = "loop") ~>
           (pc = "done" /\ InShooter /\ Len(res_n) = Len(args.rpath))

\* A call of the shooter on a path of three periods has returned after three
\* solves, the second and third started from l_tilde/2 although the solves
\* before them returned another labor supply.
C14_Witness ==
    /\ pc = "done"
    /\ InShooter
    /\ Len(args.rpath) = 3
    /\ Len(res_n) = 3
    /\ \A t \in 1..3 : res_n[t].x0 = RDiv(args.params[4], Two)
    /\ res_n[1].x # res_n[2].x0
    /\ res_n[1].x # res_n[2].x
    /\ nvec = <<res_n[1].x, res_n[2].x, res_n[3].x>>

\* The errors of get_n_errors, respectively get_b_errors, on the arguments
\* of the returned call with diff = df.
NErrorsIn(df) == get_n_errors(args.nvec, [args.args EXCEPT ![9] = df])

BErrorsIn(df) == get_b_errors(args.params, args.r, args.cvec, df)

RECURSIVE LoopState(_, _, _)
LoopState(a, rn, k) ==
    IF k = 0
    THEN <<[i \in 1..Len(a.rpath) |-> Zero], [i \in 1..Len(a.rpath) |-> Zero],
           [i \in 1..Len(a.rpath) |-> Zero]>>
    ELSE LET s == LoopState(a, rn, k - 1)
         IN  <<PySet(s[1], k - 1,
                     IF k = 1 THEN a.c_init
                     ELSE next_c(s[1], a.rpath, k - 1, a.params[2], a.params[3],
                                 a.params[8])),
               PySet(s[2], k - 1, rn[k].x),
               PySet(s[3], k - 1,
                     IF k = 1 THEN a.params[1]
                     ELSE next_b(a.rpath, a.wpath, s[3], s[2], s[1], k - 2,
                                 PyIdx(a.xpath, k - 2), a.params[8]))>>

\* What the call name returns on the arguments a (the solves of the shooter
\* having returned rn).
ResultOf(name, a, rn) ==
    CASE name = "get_cons" ->
             [status |-> "ok",
              val |-> get_cons(a.r, a.w, a.b, a.b_sp1, a.n, a.x, a.tax_params)]
      [] name = "MU_c_stitch" -> MU_c_stitch(a.cvec, a.sigma, a.graph)
      [] name = "MDU_n_stitch" -> MDU_n_stitch(a.nvec, a.params, a.graph)
      [] name = "get_n_errors" ->
             [status |-> "ok", val |-> get_n_errors(a.nvec, a.args)]
      [] name = "get_b_errors" -> get_b_errors(a.params, a.r, a.cvec, a.diff)
      [] name = "bn_solve" -> bn_solve(a.guesses, a.args)
      [] name \in {"get_cnb_vecs", "c1_bSp1err"} ->
             LET s     == LoopState(a, rn, Len(a.rpath))
                 b_Sp1 == next_b(a.rpath, a.wpath, s[3], s[2], s[1], -1,
                                 x_after_loop(a.xpath, Len(a.rpath) - 1),
                                 a.params[8])
             IN  IF name = "c1_bSp1err" THEN [status |-> "ok", val |-> b_Sp1]
                 ELSE [status |-> "ok", val |-> <<s[1], s[2], s[3], b_Sp1>>]

WithTauC(name, a, tc) ==
    CASE name = "get_cons" -> [a EXCEPT !.tax_params[3] = tc]
      [] name = "bn_solve" -> [a EXCEPT !.args[11][3] = tc]
      [] name \in {"get_cnb_vecs", "c1_bSp1err"} ->
             [a EXCEPT !.params[8][3] = tc]

\* The tax triple of the arguments a of the call name.
TaxOf(name, a) ==
    CASE name = "get_cons" -> a.tax_params
      [] name = "bn_solve" -> a.args[11]
      [] name \in {"get_cnb_vecs", "c1_bSp1err"} -> a.params[8]

\* C17: tau_c has no effect on any result: what get_cons, bn_solve,
\* get_cnb_vecs and c1_bSp1err have returned is what they return on the same
\* inputs with another tau_c in the tax triple (0.5 for a tau_c of 0, and 0
\* for any other), tau_l and tau_k kept.
C17_TauCWithoutEffect ==
    (/\ pc = "done"
     /\ fn \in {"get_cons", "bn_solve", "get_cnb_vecs", "c1_bSp1err"}) =>
        ret = ResultOf(fn,
                       WithTauC(fn, args,
                                IF tau_c_of(TaxOf(fn, args)) = Zero THEN Half
                                ELSE Zero),
                       res_n)

\* A call of get_cons with nonzero rates tau_l, tau_k and tau_c, on nonzero
\* wealth and labor income, has returned.
C17_Witness ==
    /\ pc = "done"
    /\ fn = "get_cons"
    /\ tau_c_of(args.tax_params) = Q(1, 10)
    /\ tau_l_of(args.tax_params) # Zero
    /\ tau_k_of(args.tax_params) # Zero
    /\ args.b.nd = 0
    /\ args.b.v # Zero
    /\ args.r.v # Zero
    /\ ret.status = "ok"
    /\ ret.val.v # Zero

====
